---- MODULE Spec2Model ----
(***************************************************************************)
(* A model of the Vidtube backend's request handlers: the document         *)
(* collections (Video, Comment, Tweet, Playlist, Like, Subscription), the  *)
(* media gateway (Cloudinary) behind utils/cloudinary.js, the local        *)
(* temporary files, and one action per handler or per await step.          *)
(*                                                                         *)
(* Identifiers are naturals: 0 is a malformed identifier (ObjectId.isValid *)
(* is false on it), every other number is well formed.                     *)
(***************************************************************************)
EXTENDS Integers, Sequences, FiniteSets, TLC

VARIABLES
  videos,         \* Video collection: _id -> document
  comments,       \* Comment collection: _id -> document
  tweets,         \* Tweet collection: _id -> document
  playlists,      \* Playlist collection: _id -> document
  likeDocs,       \* Like collection: <<likedBy, kind, target>> -> number of documents
  subscriptions,  \* Subscription collection: <<subscriber, channel>> -> number of documents
  media,          \* media gateway: public_id -> resource type of the stored asset
  tempFiles,      \* local temporary files that exist
  nextPublicId,   \* the next fresh public_id (uuidv4) of an upload
  nextObjectId,   \* the next fresh _id of a created document
  pc,             \* per request slot: the await the handler is suspended at
  loc,            \* per request slot: the handler's local variables
  resp,           \* per request slot: the response sent for the latest request
  trace,          \* per request slot: storage and gateway calls of the latest request
  log             \* the latest completed toggleVideoLike calls, oldest first

vars == <<videos, comments, tweets, playlists, likeDocs, subscriptions, media,
          tempFiles, nextPublicId, nextObjectId, pc, loc, resp, trace, log>>

gateway == <<media, tempFiles, nextPublicId>>

db == <<videos, comments, tweets, playlists, likeDocs, subscriptions>>

----------------------------------------------------------------------------
(* Bounds of the model *)

MaxVersion == 3       \* a video's __v at which no further like toggle is started
MaxListDocs == 4      \* most documents in a listed collection (beside the 25 of the example)
MaxAssets == 3        \* uploads are modelled while the fresh public_id is at most this
MaxDocs == 2          \* documents are created while the fresh _id is at most this
MaxMembers == 3       \* a video is added to a playlist while its list is shorter than this

----------------------------------------------------------------------------
(* Identities *)

Users == {1, 2}               \* the User collection (never written by these handlers)
GhostUser == {3}              \* a well-formed user id with no User document
Handlers == {"h1", "h2"}      \* request slots; a sequential specification uses H1 only
H1 == "h1"

IsValidObjectId(id) == id # 0

Range(s) == {s[i] : i \in 1..Len(s)}

RECURSIVE SelectSeqBy(_, _)
\* Array.prototype.filter keeping the elements different from x
SelectSeqBy(s, x) ==
  IF s = <<>> THEN <<>>
  ELSE IF Head(s) = x THEN SelectSeqBy(Tail(s), x)
       ELSE <<Head(s)>> \o SelectSeqBy(Tail(s), x)

RECURSIVE Occurrences(_, _)
Occurrences(s, x) ==
  IF s = <<>> THEN 0
  ELSE (IF Head(s) = x THEN 1 ELSE 0) + Occurrences(Tail(s), x)

NoDup(s) == \A i, j \in 1..Len(s) : s[i] = s[j] => i = j

----------------------------------------------------------------------------
(* Strings are sequences of characters, so that length and trim are computed *)

Blank == " "

RECURSIVE TrimLeft(_)
TrimLeft(s) == IF s # <<>> /\ Head(s) = Blank THEN TrimLeft(Tail(s)) ELSE s

RECURSIVE TrimRight(_)
TrimRight(s) ==
  IF s # <<>> /\ s[Len(s)] = Blank THEN TrimRight(SubSeq(s, 1, Len(s) - 1)) ELSE s

\* String.prototype.trim
Trim(s) == TrimRight(TrimLeft(s))

Chars(n, c) == [i \in 1..n |-> c]

----------------------------------------------------------------------------
(* The Video schema *)

TitleMinLength == 3
TitleMaxLength == 100
DescriptionMinLength == 10
DescriptionMaxLength == 5000

\* validators that admit a title one character short
VideoSchemaShortTitle(title, description) ==
  /\ Len(title) >= TitleMinLength - 1
  /\ Len(title) <= TitleMaxLength
  /\ Len(description) >= DescriptionMinLength
  /\ Len(description) <= DescriptionMaxLength

\* the schema's validators, run by Video.create and video.save
VideoSchemaValid(title, description) ==
  /\ Len(title) >= TitleMinLength
  /\ Len(title) <= TitleMaxLength
  /\ Len(description) >= DescriptionMinLength
  /\ Len(description) <= DescriptionMaxLength

\* the URL the gateway serves an asset under
Url(publicId) == <<"url", publicId>>

NewVideo(title, description, duration, owner, vUp, tUp, at) ==
  [ videoFile |-> vUp.url, videoPublicId |-> vUp.public_id,
    thumbnail |-> tUp.url, thumbnailPublicId |-> tUp.public_id,
    title |-> title, description |-> description, duration |-> duration,
    views |-> 0, isPublished |-> TRUE, likes |-> <<>>, comments |-> <<>>,
    owner |-> owner, createdAt |-> at, ver |-> 0 ]

----------------------------------------------------------------------------
(* The Like collection *)

EmptyBag == [k \in {} |-> 0]

CopiesOf(docs, key) == IF key \in DOMAIN docs THEN docs[key] ELSE 0

RECURSIVE BagSum(_, _)
BagSum(docs, S) ==
  IF S = {} THEN 0
  ELSE LET k == CHOOSE x \in S : TRUE IN docs[k] + BagSum(docs, S \ {k})

\* Model.create: no unique index, every call inserts a document
InsertDoc(docs, key) ==
  [k \in DOMAIN docs \cup {key} |-> IF k = key THEN CopiesOf(docs, key) + 1 ELSE docs[k]]

\* findOneAndDelete / deleteOne / doc.remove(): at most one document goes
DeleteOneDoc(docs, key) ==
  IF CopiesOf(docs, key) = 0 THEN docs
  ELSE IF docs[key] = 1 THEN [k \in DOMAIN docs \ {key} |-> docs[k]]
  ELSE [docs EXCEPT ![key] = @ - 1]

LikeKey(user, kind, target) == <<user, kind, target>>

\* Like.countDocuments({ video: videoId })
VideoLikeCount(docs, v) ==
  BagSum(docs, {k \in DOMAIN docs : k[2] = "video" /\ k[3] = v})

----------------------------------------------------------------------------
(* Responses *)

NoResp == [status |-> 0]
NoLoc == [op |-> "none"]

\* the error boundary (asyncHandler, ApiError) answers a thrown
\* ApiError(statusCode) with that status
Answer(req, status, data) ==
  [req |-> req, status |-> status, data |-> data, sends |-> 1]

\* a handler that has returned without sending anything
Unanswered(req) == [req |-> req, status |-> 0, data |-> <<>>, sends |-> 0]

\* a storage or gateway call of a handler, as the trace records it
Call(name, arg, result) == [call |-> name, arg |-> arg, result |-> result]

\* what a handler that runs in one step leaves behind in its slot
Finish(h, r, t) ==
  /\ pc[h] = "idle"
  /\ resp' = [resp EXCEPT ![h] = r]
  /\ trace' = [trace EXCEPT ![h] = t]
  /\ log' = <<>>
  /\ UNCHANGED <<pc, loc>>

----------------------------------------------------------------------------
(* toggleVideoLike, one action per await *)

\* v.likes and the Like documents of v agree, user by user
LikesAgree(v) ==
  /\ \A u \in Users :
       Occurrences(videos[v].likes, u) = CopiesOf(likeDocs, LikeKey(u, "video", v))
  /\ Len(videos[v].likes) = VideoLikeCount(likeDocs, v)

\* MongooseArray.includes
Includes(arr, x) == x \in Range(arr)

\* the record the log keeps of a toggleVideoLike call that has responded
LogEntry(l, status, likedAfter, agreeAfter) ==
  [ user |-> l.user, video |-> l.videoId, status |-> status,
    alone |-> l.alone, agreeBefore |-> l.agreeBefore, likedBefore |-> l.likedBefore,
    likedAfter |-> likedAfter, agreeAfter |-> agreeAfter ]

Logged(entry) == IF Len(log) < 2 THEN Append(log, entry) ELSE <<log[2], entry>>

\* every handler in flight learns that another request has started
Overlapped(h, l) ==
  [g \in Handlers |-> IF g = h THEN l
                      ELSE IF pc[g] = "idle" THEN loc[g]
                      ELSE [loc[g] EXCEPT !.alone = FALSE]]

\* lines 11-19: the id check, then the handler awaits Video.findById
ToggleVideoLikeStart(h, user, videoId) ==
  LET req == [op |-> "toggleVideoLike", user |-> user, videoId |-> videoId] IN
  /\ pc[h] = "idle"
  /\ \A v \in DOMAIN videos : videos[v].ver < MaxVersion
  /\ IF ~IsValidObjectId(videoId)
     THEN /\ resp' = [resp EXCEPT ![h] = Answer(req, 400, "Invalid video ID")]
          /\ trace' = [trace EXCEPT ![h] = <<>>]
          /\ log' = <<>>
          /\ UNCHANGED <<pc, loc>>
     ELSE /\ pc' = [pc EXCEPT ![h] = "findVideo"]
          /\ loc' = Overlapped(h,
                      [ op |-> "toggleVideoLike", user |-> user, videoId |-> videoId,
                        likes |-> <<>>, ver |-> 0, alreadyLiked |-> FALSE,
                        alone |-> \A g \in Handlers \ {h} : pc[g] = "idle",
                        agreeBefore |-> videoId \in DOMAIN videos /\ LikesAgree(videoId),
                        likedBefore |-> videoId \in DOMAIN videos
                                          /\ Includes(videos[videoId].likes, user) ])
          /\ resp' = [resp EXCEPT ![h] = NoResp]
          /\ trace' = [trace EXCEPT ![h] = <<>>]
          /\ UNCHANGED log
  /\ UNCHANGED <<db, gateway, nextObjectId>>

\* lines 19-38: findById resolves; membership is read from the loaded array,
\* which is then filtered or pushed to in memory
ToggleVideoLikeFind(h) ==
  LET l == loc[h]
      v == l.videoId
  IN
  /\ pc[h] = "findVideo"
  /\ IF v \notin DOMAIN videos
     THEN /\ resp' = [resp EXCEPT ![h] =
                        Answer([op |-> l.op, user |-> l.user, videoId |-> v],
                               404, "Video not found")]
          /\ trace' = [trace EXCEPT ![h] = Append(@, Call("Video.findById", v, "null"))]
          /\ pc' = [pc EXCEPT ![h] = "idle"]
          /\ log' = <<>>
          /\ UNCHANGED loc
     ELSE LET liked == Includes(videos[v].likes, l.user) IN
          /\ loc' = [loc EXCEPT ![h] =
                       [l EXCEPT !.alreadyLiked = liked,
                                 !.ver = videos[v].ver,
                                 !.likes = IF liked
                                           THEN SelectSeqBy(videos[v].likes, l.user)
                                           ELSE Append(videos[v].likes, l.user)]]
          /\ pc' = [pc EXCEPT ![h] = IF liked THEN "deleteLike" ELSE "createLike"]
          /\ trace' = [trace EXCEPT ![h] = Append(@, Call("Video.findById", v, "found"))]
          /\ UNCHANGED <<resp, log>>
  /\ UNCHANGED <<db, gateway, nextObjectId>>

\* line 35: Like.findOneAndDelete({ likedBy, video })
ToggleVideoLikeDelete(h) ==
  LET l == loc[h] IN
  /\ pc[h] = "deleteLike"
  /\ likeDocs' = DeleteOneDoc(likeDocs, LikeKey(l.user, "video", l.videoId))
  /\ pc' = [pc EXCEPT ![h] = "saveVideo"]
  /\ trace' = [trace EXCEPT ![h] = Append(@, Call("Like.findOneAndDelete", l.videoId, "ok"))]
  /\ UNCHANGED <<videos, comments, tweets, playlists, subscriptions, gateway,
                 nextObjectId, loc, resp, log>>

\* an insert that a unique index on (likedBy, video) would turn into a no-op
CreateVideoLikeIfAbsent(docs, user, videoId) ==
  IF CopiesOf(docs, LikeKey(user, "video", videoId)) > 0 THEN docs
  ELSE InsertDoc(docs, LikeKey(user, "video", videoId))

\* lines 40-43: Like.create({ likedBy, video })
CreateVideoLike(docs, user, videoId) == InsertDoc(docs, LikeKey(user, "video", videoId))

ToggleVideoLikeCreate(h) ==
  LET l == loc[h] IN
  /\ pc[h] = "createLike"
  /\ likeDocs' = CreateVideoLike(likeDocs, l.user, l.videoId)
  /\ pc' = [pc EXCEPT ![h] = "saveVideo"]
  /\ trace' = [trace EXCEPT ![h] = Append(@, Call("Like.create", l.videoId, "ok"))]
  /\ UNCHANGED <<videos, comments, tweets, playlists, subscriptions, gateway,
                 nextObjectId, loc, resp, log>>

\* line 47: video.save(). A push is sent as $push (and __v incremented); an
\* assigned array is sent as $set under the condition that __v is the one
\* read, and a save that matches no document throws (VersionError)
SaveLikes(doc, l) ==
  IF l.alreadyLiked
  THEN IF doc.ver = l.ver
       THEN [ok |-> TRUE, doc |-> [doc EXCEPT !.likes = l.likes, !.ver = @ + 1]]
       ELSE [ok |-> FALSE, doc |-> doc]
  ELSE [ok |-> TRUE, doc |-> [doc EXCEPT !.likes = Append(@, l.user), !.ver = @ + 1]]

ToggleVideoLikeSave(h) ==
  LET l == loc[h]
      v == l.videoId
      saved == SaveLikes(videos[v], l)
  IN
  /\ pc[h] = "saveVideo"
  /\ v \in DOMAIN videos
  /\ IF saved.ok
     THEN /\ videos' = [videos EXCEPT ![v] = saved.doc]
          /\ pc' = [pc EXCEPT ![h] = "countLikes"]
          /\ trace' = [trace EXCEPT ![h] = Append(@, Call("video.save", v, "ok"))]
          /\ UNCHANGED <<resp, log>>
     ELSE /\ resp' = [resp EXCEPT ![h] =
                        Answer([op |-> l.op, user |-> l.user, videoId |-> v],
                               500, "VersionError")]
          /\ pc' = [pc EXCEPT ![h] = "idle"]
          /\ trace' = [trace EXCEPT ![h] = Append(@, Call("video.save", v, "VersionError"))]
          /\ log' = Logged(LogEntry([l EXCEPT !.alone = FALSE], 500, FALSE, FALSE))
          /\ UNCHANGED videos
  /\ UNCHANGED <<comments, tweets, playlists, likeDocs, subscriptions, gateway,
                 nextObjectId, loc>>

\* lines 50-63: Like.countDocuments({ video }), then the 200 response
ToggleVideoLikeCount(h) ==
  LET l == loc[h]
      v == l.videoId
      likesCount == VideoLikeCount(likeDocs, v)
  IN
  /\ pc[h] = "countLikes"
  /\ resp' = [resp EXCEPT ![h] =
                Answer([op |-> l.op, user |-> l.user, videoId |-> v], 200,
                       [likesCount |-> likesCount, userLiked |-> ~l.alreadyLiked])]
  /\ pc' = [pc EXCEPT ![h] = "idle"]
  /\ trace' = [trace EXCEPT ![h] = Append(@, Call("Like.countDocuments", v, "ok"))]
  /\ log' = Logged(LogEntry(l, 200,
                            v \in DOMAIN videos /\ Includes(videos[v].likes, l.user),
                            v \in DOMAIN videos
                              /\ Len(videos[v].likes) = VideoLikeCount(likeDocs, v)))
  /\ UNCHANGED <<db, gateway, nextObjectId, loc>>

----------------------------------------------------------------------------
(* The initial state: a database in which user 1 has published video 1 (its *)
(* two assets are at the gateway), commented on it, tweeted and created a   *)
(* playlist; nothing is liked and nobody is subscribed. The listings start  *)
(* from databases of n such videos and comments.                            *)

Title3 == <<"a", "b", "c">>
OtherTitle == <<"x", "y", "z">>
Description10 == Chars(10, "d")

Odd(i) == i % 2 = 1

\* the i-th video of a database of n: owners and titles alternate, durations
\* fall as creation times rise, its assets have the public ids 2i-1 and 2i
SeedVideo(i, n) ==
  NewVideo(IF Odd(i) THEN Title3 ELSE OtherTitle, Description10, 10 * (n + 1 - i),
           IF Odd(i) THEN 1 ELSE 2,
           [url |-> Url(2 * i - 1), public_id |-> 2 * i - 1],
           [url |-> Url(2 * i), public_id |-> 2 * i], i)

\* the i-th comment: on video 1 (odd i) or 2 (even i), by alternating owners
SeedComment(i) ==
  [content |-> <<"c">>, video |-> IF Odd(i) THEN 1 ELSE 2,
   owner |-> IF Odd(i) THEN 1 ELSE 2, likes |-> <<>>, createdAt |-> i]

\* a database of n videos and comments; `viewed` gives video i its i views,
\* likes and subs are the Like and Subscription collections
Database(n, viewed, likes, subs) ==
  /\ videos = [i \in 1..n |-> IF viewed THEN [SeedVideo(i, n) EXCEPT !.views = i]
                                         ELSE SeedVideo(i, n)]
  /\ comments = [i \in 1..n |-> SeedComment(i)]
  /\ tweets = (1 :> [content |-> <<"t">>, owner |-> 1, replyTo |-> 0])
  /\ playlists = (1 :> [name |-> <<"p">>, description |-> <<"d">>, owner |-> 1,
                        videos |-> <<>>])
  /\ likeDocs = likes
  /\ subscriptions = subs
  /\ media = [a \in 1..(2 * n) |-> IF Odd(a) THEN "video" ELSE "image"]
  /\ tempFiles = {}
  /\ nextPublicId = 2 * n + 1
  /\ nextObjectId = n + 1
  /\ pc = [h \in Handlers |-> "idle"]
  /\ loc = [h \in Handlers |-> NoLoc]
  /\ resp = [h \in Handlers |-> NoResp]
  /\ trace = [h \in Handlers |-> <<>>]
  /\ log = <<>>

InitWith(n) == Database(n, FALSE, EmptyBag, EmptyBag)

Init == InitWith(1)

----------------------------------------------------------------------------
(* Like toggles of two clients that may overlap *)

VideoIdInputs == {0, 1, 2}

LikeNext ==
  \E h \in Handlers :
    \/ \E u \in Users, v \in VideoIdInputs : ToggleVideoLikeStart(h, u, v)
    \/ ToggleVideoLikeFind(h)
    \/ ToggleVideoLikeDelete(h)
    \/ ToggleVideoLikeCreate(h)
    \/ ToggleVideoLikeSave(h)
    \/ ToggleVideoLikeCount(h)

LikeSpec == Init /\ [][LikeNext]_vars

----------------------------------------------------------------------------
(* Claims settled under LikeSpec *)

SameCall(a, b) == a.user = b.user /\ a.video = b.video

\* a logged call that ran with no other request in flight and succeeded
RanAlone(e) == e.status = 200 /\ e.alone

\* C1: two strictly sequential toggleVideoLike calls by one user on one video,
\* started where v.likes and the Like documents of v agree, bring the user's
\* liked status back to what it was, and after each of the two calls the
\* length of v.likes is the number of Like documents of v.
C1_ToggleTwiceRestores ==
  /\ Len(log) >= 1 /\ RanAlone(log[1]) /\ log[1].agreeBefore => log[1].agreeAfter
  /\ ( /\ Len(log) = 2
       /\ RanAlone(log[1]) /\ RanAlone(log[2])
       /\ SameCall(log[1], log[2])
       /\ log[1].agreeBefore )
     => /\ log[2].likedAfter = log[1].likedBefore
        /\ log[1].agreeAfter
        /\ log[2].agreeAfter

\* C5: in toggleVideoLike the membership read and the insert are separate
\* steps with nothing between them that stops a second insert: the insert of a
\* call that read "not liked" always adds a Like document for the pair, also
\* when another call has inserted one since the read, and the call then answers
\* userLiked = true. (That two overlapping calls both do so is C5_Witness.)
C5_InsertUnconditional ==
  [][ \A h \in Handlers :
        /\ (pc[h] = "createLike" /\ pc'[h] = "saveVideo")
             => CopiesOf(likeDocs', LikeKey(loc[h].user, "video", loc[h].videoId))
                  = CopiesOf(likeDocs, LikeKey(loc[h].user, "video", loc[h].videoId)) + 1
        /\ (pc[h] = "countLikes" /\ pc'[h] = "idle" /\ ~loc[h].alreadyLiked)
             => resp'[h].status = 200 /\ resp'[h].data.userLiked ]_vars

\* both calls have answered userLiked = true and the pair has two Like documents
C5_Witness ==
  \E u \in Users, v \in DOMAIN videos :
    /\ \A h \in Handlers :
         /\ pc[h] = "idle"
         /\ resp[h].status = 200
         /\ resp[h].req = [op |-> "toggleVideoLike", user |-> u, videoId |-> v]
         /\ resp[h].data.userLiked
    /\ CopiesOf(likeDocs, LikeKey(u, "video", v)) = 2

----------------------------------------------------------------------------
(* toggleSubscription *)

SubKey(subscriber, channel) == <<subscriber, channel>>

\* a toggle that never looks the subscription up
ToggleSubscriptionNoLookup(subs, subscriber, channelId) ==
  [ status |-> 201, found |-> FALSE,
    subs |-> InsertDoc(subs, SubKey(subscriber, channelId)) ]

\* lines 22-55: Subscription.findOne, then deleteOne of the document found
\* (200) or Subscription.create (201)
ToggleSubscriptionEffect(subs, subscriber, channelId) ==
  IF CopiesOf(subs, SubKey(subscriber, channelId)) > 0
  THEN [ status |-> 200, found |-> TRUE,
         subs |-> DeleteOneDoc(subs, SubKey(subscriber, channelId)) ]
  ELSE [ status |-> 201, found |-> FALSE,
         subs |-> InsertDoc(subs, SubKey(subscriber, channelId)) ]

ToggleSubscription(h, user, channelId) ==
  LET req == [op |-> "toggleSubscription", user |-> user, channelId |-> channelId]
      eff == ToggleSubscriptionEffect(subscriptions, user, channelId)
  IN
  /\ IF ~IsValidObjectId(channelId)
     THEN /\ Finish(h, Answer(req, 400, "Invalid channel ID"), <<>>)
          /\ UNCHANGED subscriptions
     ELSE IF channelId \notin Users
     THEN /\ Finish(h, Answer(req, 404, "Channel not found"),
                    <<Call("User.findById", channelId, "null")>>)
          /\ UNCHANGED subscriptions
     ELSE /\ subscriptions' = eff.subs
          /\ Finish(h, Answer(req, eff.status, IF eff.found THEN "unsubscribed" ELSE "subscribed"),
                    << Call("User.findById", channelId, "found"),
                       Call("Subscription.findOne", SubKey(user, channelId),
                            IF eff.found THEN "found" ELSE "null"),
                       Call(IF eff.found THEN "Subscription.deleteOne"
                            ELSE "Subscription.create", SubKey(user, channelId), "ok") >>)
  /\ UNCHANGED <<videos, comments, tweets, playlists, likeDocs, gateway, nextObjectId>>

UserIdInputs == {0} \cup Users \cup GhostUser

SubNext ==
  \E u \in Users, c \in UserIdInputs : ToggleSubscription(H1, u, c)

SubSpec == Init /\ [][SubNext]_vars

\* the last request was toggleSubscription by u on channel c and got past the lookup
Toggled(u, c, found) ==
  /\ resp[H1].status # 0
  /\ resp[H1].req = [op |-> "toggleSubscription", user |-> u, channelId |-> c]
  /\ Len(trace[H1]) = 3
  /\ trace[H1][2] = Call("Subscription.findOne", SubKey(u, c),
                         IF found THEN "found" ELSE "null")

\* C2: under strictly sequential toggleSubscription calls no (subscriber,
\* channel) pair ever has two Subscription documents, and a call for a pair
\* that has one removes it instead of creating another.
C2_AtMostOneSubscription ==
  /\ \A k \in DOMAIN subscriptions : subscriptions[k] <= 1
  /\ \A u \in Users, c \in Users :
       /\ Toggled(u, c, TRUE)
            => resp[H1].status = 200 /\ CopiesOf(subscriptions, SubKey(u, c)) = 0
       /\ Toggled(u, c, FALSE)
            => resp[H1].status = 201 /\ CopiesOf(subscriptions, SubKey(u, c)) = 1

\* a toggle has found the pair subscribed and removed the subscription
C2_Witness ==
  \E u \in Users, c \in Users :
    Toggled(u, c, TRUE) /\ CopiesOf(subscriptions, SubKey(u, c)) = 0

----------------------------------------------------------------------------
(* utils/cloudinary.js: the media gateway adapter *)

NoPath == ""
NullResponse == [ok |-> FALSE, url |-> <<>>, public_id |-> 0]

\* fs.unlinkSync throws when the file is not there
UnlinkThrows(tf, path) == path \notin tf

\* what one call of the adapter leaves in the trace: the gateway call and the
\* way the adapter itself ended ("response", "null" or "thrown")
UploadCalls(path, gatewayResult, outcome) ==
  <<Call("cloudinary.upload", path, gatewayResult),
    Call("uploadOnCloudinary", path, outcome)>>

\* an adapter whose catch block forgets the temporary file
UploadKeepsFileOnFailure(path, kind, gatewayOk, m, tf, nid) ==
  IF path = NoPath
  THEN [result |-> NullResponse, thrown |-> FALSE, media |-> m, tempFiles |-> tf,
        nextPublicId |-> nid, calls |-> <<>>]
  ELSE IF gatewayOk /\ path \in tf
  THEN [result |-> [ok |-> TRUE, url |-> Url(nid), public_id |-> nid],
        thrown |-> FALSE, media |-> (nid :> kind) @@ m, tempFiles |-> tf \ {path},
        nextPublicId |-> nid + 1, calls |-> UploadCalls(path, "ok", "response")]
  ELSE [result |-> NullResponse, thrown |-> FALSE, media |-> m, tempFiles |-> tf,
        nextPublicId |-> nid + 1, calls |-> UploadCalls(path, "error", "null")]

\* uploadOnCloudinary(localFilePath): a file of resource type `kind` at `path`,
\* the gateway accepting it or not; `nid` is the uuid drawn for the public_id.
\* The gateway call reads the file, so it fails when the file is not there.
UploadOnCloudinary(path, kind, gatewayOk, m, tf, nid) ==
  IF path = NoPath
  THEN [result |-> NullResponse, thrown |-> FALSE, media |-> m, tempFiles |-> tf,
        nextPublicId |-> nid, calls |-> <<>>]
  ELSE IF gatewayOk /\ path \in tf
  THEN \* uploaded, the file unlinked, the response returned
       [result |-> [ok |-> TRUE, url |-> Url(nid), public_id |-> nid],
        thrown |-> FALSE, media |-> (nid :> kind) @@ m, tempFiles |-> tf \ {path},
        nextPublicId |-> nid + 1, calls |-> UploadCalls(path, "ok", "response")]
  ELSE \* the catch block: unlink, return null; a throwing unlink escapes
       [result |-> NullResponse, thrown |-> UnlinkThrows(tf, path),
        media |-> m, tempFiles |-> tf \ {path}, nextPublicId |-> nid + 1,
        calls |-> UploadCalls(path, "error",
                              IF UnlinkThrows(tf, path) THEN "thrown" ELSE "null")]

\* cloudinary.uploader.destroy(publicId, { resource_type }): "ok" removes the
\* asset of that id and type, "not found" when there is none
Destroy(m, publicId, resourceType) ==
  IF publicId \in DOMAIN m /\ m[publicId] = resourceType
  THEN [result |-> "ok", media |-> [a \in DOMAIN m \ {publicId} |-> m[a]]]
  ELSE [result |-> "not found", media |-> m]

\* deleteFromCloudinary(publicId): resource_type "video"; null when the id is
\* absent or the gateway call throws, the gateway's response otherwise
DeleteFromCloudinary(publicId, gatewayOk, m) ==
  IF publicId = 0
  THEN [result |-> "null", media |-> m, calls |-> <<>>]
  ELSE IF ~gatewayOk
  THEN [result |-> "null", media |-> m,
        calls |-> <<Call("cloudinary.destroy", publicId, "error")>>]
  ELSE LET d == Destroy(m, publicId, "video") IN
       [result |-> d.result, media |-> d.media,
        calls |-> <<Call("cloudinary.destroy", publicId, d.result)>>]

\* deleteImageFromCloudinary(publicId): the same with resource_type "image"
DeleteImageFromCloudinary(publicId, gatewayOk, m) ==
  IF publicId = 0
  THEN [result |-> "null", media |-> m, calls |-> <<>>]
  ELSE IF ~gatewayOk
  THEN [result |-> "null", media |-> m,
        calls |-> <<Call("cloudinary.destroy", publicId, "error")>>]
  ELSE LET d == Destroy(m, publicId, "image") IN
       [result |-> d.result, media |-> d.media,
        calls |-> <<Call("cloudinary.destroy", publicId, d.result)>>]

\* an error that is no ApiError (a schema validation failure of Video.create or
\* video.save, a VersionError) is answered by the error boundary
ValidationErrorStatus == 400

Remove(f, k) == [x \in DOMAIN f \ {k} |-> f[x]]

----------------------------------------------------------------------------
(* Comment and Tweet handlers that write *)

\* updateComment, lines 90-117
UpdateComment(h, user, commentId, content) ==
  LET req == [op |-> "updateComment", user |-> user, id |-> commentId] IN
  /\ IF content = <<>> \/ ~IsValidObjectId(commentId)
     THEN /\ Finish(h, Answer(req, 400, "Content and a valid comment ID are required"), <<>>)
          /\ UNCHANGED comments
     ELSE IF commentId \notin DOMAIN comments
     THEN /\ Finish(h, Answer(req, 404, "Comment not found"),
                    <<Call("Comment.findById", commentId, "null")>>)
          /\ UNCHANGED comments
     ELSE IF comments[commentId].owner # user
     THEN /\ Finish(h, Answer(req, 403, "You are not authorized to update this comment"),
                    <<Call("Comment.findById", commentId, "found")>>)
          /\ UNCHANGED comments
     ELSE /\ comments' = [comments EXCEPT ![commentId].content = content]
          /\ Finish(h, Answer(req, 200, "Comment updated successfully"),
                    << Call("Comment.findById", commentId, "found"),
                       Call("comment.save", commentId, "ok") >>)
  /\ UNCHANGED <<videos, tweets, playlists, likeDocs, subscriptions, gateway, nextObjectId>>

\* Video.findByIdAndUpdate(id, { $pull: { comments: commentId } })
PullComment(vs, videoId, commentId) ==
  IF videoId \in DOMAIN vs
  THEN [vs EXCEPT ![videoId].comments = SelectSeqBy(@, commentId)]
  ELSE vs

\* deleteComment, lines 120-150
DeleteComment(h, user, commentId) ==
  LET req == [op |-> "deleteComment", user |-> user, id |-> commentId] IN
  /\ IF ~IsValidObjectId(commentId)
     THEN /\ Finish(h, Answer(req, 400, "Invalid comment ID"), <<>>)
          /\ UNCHANGED <<comments, videos>>
     ELSE IF commentId \notin DOMAIN comments
     THEN /\ Finish(h, Answer(req, 404, "Comment not found"),
                    <<Call("Comment.findById", commentId, "null")>>)
          /\ UNCHANGED <<comments, videos>>
     ELSE IF comments[commentId].owner # user
     THEN /\ Finish(h, Answer(req, 403, "You are not authorized to delete this comment"),
                    <<Call("Comment.findById", commentId, "found")>>)
          /\ UNCHANGED <<comments, videos>>
     ELSE /\ comments' = Remove(comments, commentId)
          /\ videos' = PullComment(videos, comments[commentId].video, commentId)
          /\ Finish(h, Answer(req, 200, "Comment deleted successfully"),
                    << Call("Comment.findById", commentId, "found"),
                       Call("Comment.findByIdAndDelete", commentId, "ok"),
                       Call("Video.findByIdAndUpdate", comments[commentId].video, "ok") >>)
  /\ UNCHANGED <<tweets, playlists, likeDocs, subscriptions, gateway, nextObjectId>>

\* deleteTweet, tweet.controller.js lines 61-86
DeleteTweet(h, user, tweetId) ==
  LET req == [op |-> "deleteTweet", user |-> user, id |-> tweetId] IN
  /\ IF ~IsValidObjectId(tweetId)
     THEN /\ Finish(h, Answer(req, 400, "Invalid tweet ID"), <<>>)
          /\ UNCHANGED tweets
     ELSE IF tweetId \notin DOMAIN tweets
     THEN /\ Finish(h, Answer(req, 404, "Tweet not found"),
                    <<Call("Tweet.findById", tweetId, "null")>>)
          /\ UNCHANGED tweets
     ELSE IF tweets[tweetId].owner # user
     THEN /\ Finish(h, Answer(req, 403, "You are not authorized to delete this tweet"),
                    <<Call("Tweet.findById", tweetId, "found")>>)
          /\ UNCHANGED tweets
     ELSE /\ tweets' = Remove(tweets, tweetId)
          /\ Finish(h, Answer(req, 200, "Tweet deleted successfully"),
                    << Call("Tweet.findById", tweetId, "found"),
                       Call("Tweet.findByIdAndDelete", tweetId, "ok") >>)
  /\ UNCHANGED <<videos, comments, playlists, likeDocs, subscriptions, gateway, nextObjectId>>

----------------------------------------------------------------------------
(* Video handlers that write *)

VideoPath == "temp/videoFile"
ThumbnailPath == "temp/thumbnail"

\* updateVideo, lines 190-236: what it answers and leaves behind. `file` says
\* whether multer stored a thumbnail upload, `gatewayOk` whether the gateway
\* accepts it.
UpdateVideoEffect(vs, m, tf, nid, user, videoId, title, description, file, gatewayOk) ==
  LET same == [videos |-> vs, media |-> m, tempFiles |-> tf, nextPublicId |-> nid] IN
  IF ~IsValidObjectId(videoId)
  THEN same @@ [status |-> 400, msg |-> "Invalid Video ID format", calls |-> <<>>]
  ELSE IF videoId \notin DOMAIN vs
  THEN same @@ [status |-> 404, msg |-> "Video not found",
                calls |-> <<Call("Video.findById", videoId, "null")>>]
  ELSE
    LET found == <<Call("Video.findById", videoId, "found")>>
        v0 == vs[videoId]
        v1 == [v0 EXCEPT !.title = IF Trim(title) # <<>> THEN Trim(title) ELSE @,
                         !.description = IF Trim(description) # <<>>
                                         THEN Trim(description) ELSE @]
        up == UploadOnCloudinary(IF file THEN ThumbnailPath ELSE NoPath, "image",
                                 gatewayOk, m, tf, nid)
        after == [videos |-> vs, media |-> up.media, tempFiles |-> up.tempFiles,
                  nextPublicId |-> up.nextPublicId]
        v2 == IF file THEN [v1 EXCEPT !.thumbnail = up.result.url] ELSE v1
    IN
    IF file /\ up.thrown
    THEN after @@ [status |-> 500, msg |-> "unlink failed", calls |-> found \o up.calls]
    ELSE IF file /\ ~up.result.ok
    THEN after @@ [status |-> 400, msg |-> "Failed to upload thumbnail",
                   calls |-> found \o up.calls]
    ELSE IF ~VideoSchemaValid(v2.title, v2.description)
    THEN after @@ [status |-> ValidationErrorStatus, msg |-> "ValidationError",
                   calls |-> found \o up.calls \o <<Call("video.save", videoId, "ValidationError")>>]
    ELSE [videos |-> [vs EXCEPT ![videoId] = v2], media |-> up.media,
          tempFiles |-> up.tempFiles, nextPublicId |-> up.nextPublicId,
          status |-> 200, msg |-> "Video updated successfully",
          calls |-> found \o up.calls \o <<Call("video.save", videoId, "ok")>>]

UpdateVideo(h, user, videoId, title, description, file, gatewayOk) ==
  LET req == [op |-> "updateVideo", user |-> user, id |-> videoId]
      eff == UpdateVideoEffect(videos, media,
                               IF file THEN tempFiles \cup {ThumbnailPath} ELSE tempFiles,
                               nextPublicId, user, videoId, title, description, file,
                               gatewayOk)
  IN
  /\ file => nextPublicId <= MaxAssets
  /\ ~file => gatewayOk
  /\ videos' = eff.videos
  /\ media' = eff.media
  /\ tempFiles' = eff.tempFiles
  /\ nextPublicId' = eff.nextPublicId
  /\ Finish(h, Answer(req, eff.status, eff.msg), eff.calls)
  /\ UNCHANGED <<comments, tweets, playlists, likeDocs, subscriptions, nextObjectId>>

\* a deleteVideo that goes on to delete the document whatever the gateway said
DeleteVideoIgnoringGateway(vs, m, user, videoId, videoOk, thumbOk) ==
  IF ~IsValidObjectId(videoId)
  THEN [videos |-> vs, media |-> m, status |-> 400, msg |-> "Invalid Video ID format",
        calls |-> <<>>]
  ELSE IF videoId \notin DOMAIN vs
  THEN [videos |-> vs, media |-> m, status |-> 404, msg |-> "Video not found",
        calls |-> <<Call("Video.findById", videoId, "null")>>]
  ELSE IF user # vs[videoId].owner
  THEN [videos |-> vs, media |-> m, status |-> 403,
        msg |-> "You are not authorized to delete this video",
        calls |-> <<Call("Video.findById", videoId, "found")>>]
  ELSE
    LET d1 == DeleteFromCloudinary(vs[videoId].videoPublicId, videoOk, m)
        d2 == DeleteFromCloudinary(vs[videoId].thumbnailPublicId, thumbOk, d1.media)
    IN [videos |-> Remove(vs, videoId), media |-> d2.media, status |-> 200,
        msg |-> "Video deleted successfully",
        calls |-> <<Call("Video.findById", videoId, "found")>> \o d1.calls \o d2.calls
                    \o <<Call("Video.findByIdAndDelete", videoId, "ok")>>]

\* deleteVideo, lines 239-285. `videoOk` and `thumbOk` say whether the gateway
\* answers the two destroy calls (or throws).
DeleteVideoEffect(vs, m, user, videoId, videoOk, thumbOk) ==
  IF ~IsValidObjectId(videoId)
  THEN [videos |-> vs, media |-> m, status |-> 400, msg |-> "Invalid Video ID format",
        calls |-> <<>>]
  ELSE IF videoId \notin DOMAIN vs
  THEN [videos |-> vs, media |-> m, status |-> 404, msg |-> "Video not found",
        calls |-> <<Call("Video.findById", videoId, "null")>>]
  ELSE IF user # vs[videoId].owner
  THEN [videos |-> vs, media |-> m, status |-> 403,
        msg |-> "You are not authorized to delete this video",
        calls |-> <<Call("Video.findById", videoId, "found")>>]
  ELSE
    LET found == <<Call("Video.findById", videoId, "found")>>
        v == vs[videoId]
        d1 == IF v.videoPublicId # 0
              THEN DeleteFromCloudinary(v.videoPublicId, videoOk, m)
              ELSE [result |-> "skipped", media |-> m, calls |-> <<>>]
        d2 == IF v.thumbnailPublicId # 0
              THEN DeleteFromCloudinary(v.thumbnailPublicId, thumbOk, d1.media)
              ELSE [result |-> "skipped", media |-> d1.media, calls |-> <<>>]
    IN
    IF d1.result = "null"
    THEN [videos |-> vs, media |-> d1.media, status |-> 500,
          msg |-> "Failed to delete video from Cloudinary", calls |-> found \o d1.calls]
    ELSE IF d2.result = "null"
    THEN [videos |-> vs, media |-> d2.media, status |-> 500,
          msg |-> "Failed to delete thumbnail from Cloudinary",
          calls |-> found \o d1.calls \o d2.calls]
    ELSE [videos |-> Remove(vs, videoId), media |-> d2.media, status |-> 200,
          msg |-> "Video deleted successfully",
          calls |-> found \o d1.calls \o d2.calls
                      \o <<Call("Video.findByIdAndDelete", videoId, "ok")>>]

DeleteVideo(h, user, videoId, videoOk, thumbOk) ==
  LET req == [op |-> "deleteVideo", user |-> user, id |-> videoId]
      eff == DeleteVideoEffect(videos, media, user, videoId, videoOk, thumbOk)
  IN
  /\ videos' = eff.videos
  /\ media' = eff.media
  /\ Finish(h, Answer(req, eff.status, eff.msg), eff.calls)
  /\ UNCHANGED <<comments, tweets, playlists, likeDocs, subscriptions, tempFiles,
                 nextPublicId, nextObjectId>>

\* togglePublishStatus, lines 289-329
TogglePublishStatus(h, user, videoId) ==
  LET req == [op |-> "togglePublishStatus", user |-> user, id |-> videoId] IN
  /\ IF ~IsValidObjectId(videoId)
     THEN /\ Finish(h, Answer(req, 400, "Invalid Video ID format"), <<>>)
          /\ UNCHANGED videos
     ELSE IF videoId \notin DOMAIN videos
     THEN /\ Finish(h, Answer(req, 404, "Video not found"),
                    <<Call("Video.findById", videoId, "null")>>)
          /\ UNCHANGED videos
     ELSE IF user # videos[videoId].owner
     THEN /\ Finish(h, Answer(req, 403, "You are not authorized to update this video"),
                    <<Call("Video.findById", videoId, "found")>>)
          /\ UNCHANGED videos
     ELSE /\ videos' = [videos EXCEPT ![videoId].isPublished = ~@]
          /\ Finish(h, Answer(req, 200, "publish status toggled"),
                    << Call("Video.findById", videoId, "found"),
                       Call("video.save", videoId, "ok") >>)
  /\ UNCHANGED <<comments, tweets, playlists, likeDocs, subscriptions, gateway, nextObjectId>>

----------------------------------------------------------------------------
(* Updates and deletes of comments, tweets and videos, one request at a time *)

DocIdInputs == {0, 1, 2}
ContentInputs == {<<>>, <<"n">>}
TitleInputs == {<<>>, <<"x", "y">>, <<"x", "y", "z", " ">>}
DescriptionInputs == {<<>>, Chars(10, "e")}

\* the fields of an updateVideo request are drawn only for a video that exists
\* (the handler reads none of them before it has found the video)
OwnerNext ==
  \E u \in Users, id \in DocIdInputs :
    \/ \E c \in ContentInputs : UpdateComment(H1, u, id, c)
    \/ DeleteComment(H1, u, id)
    \/ DeleteTweet(H1, u, id)
    \/ \E t \in TitleInputs, d \in DescriptionInputs, f, ok \in BOOLEAN :
         /\ id \notin DOMAIN videos => t = <<>> /\ d = <<>> /\ ~f
         /\ UpdateVideo(H1, u, id, t, d, f, ok)
    \/ \E vok, tok \in BOOLEAN :
         /\ (id \notin DOMAIN videos \/ videos[id].owner # u) => vok /\ tok
         /\ ~vok => tok
         /\ DeleteVideo(H1, u, id, vok, tok)
    \/ TogglePublishStatus(H1, u, id)

OwnerSpec == Init /\ [][OwnerNext]_vars

----------------------------------------------------------------------------
(* Claims settled under OwnerSpec *)

OwnerCheckedOps ==
  {"updateComment", "deleteComment", "deleteTweet", "updateVideo", "deleteVideo",
   "togglePublishStatus"}

\* the collection an update or delete operation targets
TargetCollection(op) ==
  IF op \in {"updateComment", "deleteComment"} THEN comments
  ELSE IF op = "deleteTweet" THEN tweets
  ELSE videos

\* the step is a request of one of the six operations, made by a user who is
\* not the owner of the existing document it names
ByNonOwner(r) ==
  /\ r.status # 0
  /\ r.req.op \in OwnerCheckedOps
  /\ r.req.id \in DOMAIN TargetCollection(r.req.op)
  /\ TargetCollection(r.req.op)[r.req.id].owner # r.req.user

\* C3: an update or delete of a Comment, Tweet or Video requested by a user who
\* is not the document's owner is answered with 403 (a malformed request with
\* 400) and changes no stored document.
C3_OnlyOwnerMutates ==
  [][ ByNonOwner(resp'[H1])
        => /\ resp'[H1].status \in {400, 403}
           /\ UNCHANGED db ]_vars

\* the last request was a deleteVideo during which the gateway threw on a
\* destroy call
DestroyFailed ==
  /\ resp[H1].status # 0
  /\ resp[H1].req.op = "deleteVideo"
  /\ \E i \in 1..Len(trace[H1]) :
       /\ trace[H1][i].call = "cloudinary.destroy"
       /\ trace[H1][i].result = "error"

\* C4: a deleteVideo by the owner during which the media gateway fails to
\* delete an asset of the video is answered with 500, and the Video document
\* is still stored afterwards.
C4_FailedMediaDeleteKeepsVideo ==
  DestroyFailed => resp[H1].status = 500 /\ resp[H1].req.id \in DOMAIN videos

\* the gateway has failed on the video's own asset; 500, and the document is there
C4_Witness ==
  /\ DestroyFailed
  /\ resp[H1].status = 500
  /\ resp[H1].req.id \in DOMAIN videos
  /\ trace[H1][2] = Call("cloudinary.destroy", videos[resp[H1].req.id].videoPublicId, "error")

----------------------------------------------------------------------------
(* Paginated listings: getVideoComments and getAllVideos. A query-string    *)
(* parameter is absent, a number or some other text; parseInt turns the     *)
(* first into the default, the last into NaN.                               *)

Absent == [given |-> FALSE, nan |-> FALSE, n |-> 0]
Num(k) == [given |-> TRUE, nan |-> FALSE, n |-> k]
Text == [given |-> TRUE, nan |-> TRUE, n |-> 0]

DefaultPage == 1
DefaultLimit == 10

\* parseInt(q) after the destructuring default has replaced an absent q
ParseInt(q, default) == IF q.given THEN [nan |-> q.nan, n |-> q.n] ELSE [nan |-> FALSE, n |-> default]

Min(a, b) == IF a <= b THEN a ELSE b

\* Math.ceil(a / b) for a >= 0 and b >= 1
Ceil(a, b) == (a + b - 1) \div b

\* the order a sort on field key[_] gives the documents S
RECURSIVE SortIds(_, _, _)
SortIds(S, key, asc) ==
  IF S = {} THEN <<>>
  ELSE LET x == CHOOSE x \in S :
                  \A y \in S : IF asc THEN key[x] <= key[y] ELSE key[x] >= key[y]
       IN  <<x>> \o SortIds(S \ {x}, key, asc)

\* skip(s) followed by limit(l) on an ordered result
SkipLimit(seq, s, l) ==
  IF s >= Len(seq) THEN <<>> ELSE SubSeq(seq, s + 1, Min(Len(seq), s + l))

GetVideoCommentsEffect(cs, videoId, page, limit) ==
  LET req == [op |-> "getVideoComments", id |-> videoId, page |-> page, limit |-> limit]
      pageNumber == ParseInt(page, DefaultPage)
      limitNumber == ParseInt(limit, DefaultLimit)
      found == {c \in DOMAIN cs : cs[c].video = videoId}
      sorted == SortIds(found, [c \in found |-> cs[c].createdAt], FALSE)
      totalComments == Cardinality(found)
  IN  IF ~IsValidObjectId(videoId)
        THEN Answer(req, 400, "Invalid video ID")
      ELSE IF pageNumber.nan \/ pageNumber.n < 1 \/ limitNumber.nan \/ limitNumber.n < 1
        THEN Answer(req, 400, "Invalid pagination parameters")
      ELSE Answer(req, 200,
                  [docs |-> SkipLimit(sorted, (pageNumber.n - 1) * limitNumber.n, limitNumber.n),
                   totalDocs |-> totalComments,
                   page |-> pageNumber.n,
                   limit |-> limitNumber.n,
                   totalPages |-> Ceil(totalComments, limitNumber.n)])

GetVideoComments(h, videoId, page, limit) ==
  /\ Finish(h, GetVideoCommentsEffect(comments, videoId, page, limit), <<>>)
  /\ UNCHANGED <<db, gateway, nextObjectId>>

\* the lower-case form of a character, as the "i" option of $regex compares
Lower(c) == CASE c = "A" -> "a" [] c = "B" -> "b" [] c = "C" -> "c" [] OTHER -> c

\* { $regex: q, $options: "i" } on a string field, q without metacharacters
RegexMatchI(s, q) ==
  \E i \in 0..(Len(s) - Len(q)) :
    \A j \in 1..Len(q) : Lower(s[i + j]) = Lower(q[j])

SortFields == {"createdAt", "duration"}

SortKey(vs, S, sortBy) ==
  [v \in S |-> IF sortBy = "duration" THEN vs[v].duration ELSE vs[v].createdAt]

\* the documents the $match stages of getAllVideos let through
MatchedVideos(vs, query, hasUserId, userId) ==
  {v \in DOMAIN vs :
     /\ query # <<>> => RegexMatchI(vs[v].title, query) \/ RegexMatchI(vs[v].description, query)
     /\ hasUserId => vs[v].owner = userId}

\* Video.aggregatePaginate(aggregate, options): the page defaults to 1 when
\* it is NaN or 0, the limit to 10 when it is not positive; totalPages is
\* Math.ceil(count / limit) || 1
AggregatePaginate(sorted, page, limit) ==
  LET p == IF page.nan \/ page.n = 0 THEN 1 ELSE IF page.n < 0 THEN -page.n ELSE page.n
      l == IF ~limit.nan /\ limit.n > 0 THEN limit.n ELSE 10
  IN  [docs |-> SkipLimit(sorted, (p - 1) * l, l),
       totalDocs |-> Len(sorted), limit |-> l, page |-> p,
       totalPages |-> IF Len(sorted) = 0 THEN 1 ELSE Ceil(Len(sorted), l)]

\* the first response the client receives; after the 300 of an empty page
\* the handler goes on to a second send, which the sent headers reject
GetAllVideosEffect(vs, page, limit, query, sortBy, sortType, hasUserId, userId) ==
  LET req == [op |-> "getAllVideos", page |-> page, limit |-> limit, query |-> query,
              sortBy |-> sortBy, sortType |-> sortType,
              hasUserId |-> hasUserId, id |-> userId]
      matched == MatchedVideos(vs, query, hasUserId, userId)
      sorted == SortIds(matched, SortKey(vs, matched, sortBy), sortType = "asc")
      result == AggregatePaginate(sorted, ParseInt(page, DefaultPage),
                                  ParseInt(limit, DefaultLimit))
  IN  IF hasUserId /\ ~IsValidObjectId(userId)
        THEN Answer(req, 400, "Invalid user ID")
      ELSE IF Len(result.docs) = 0
        THEN [Answer(req, 300, [message |-> <<>>]) EXCEPT !.sends = 2]
      ELSE Answer(req, 200, result)

GetAllVideos(h, page, limit, query, sortBy, sortType, hasUserId, userId) ==
  /\ Finish(h, GetAllVideosEffect(videos, page, limit, query, sortBy, sortType,
                                  hasUserId, userId), <<>>)
  /\ UNCHANGED <<db, gateway, nextObjectId>>

PageInputs == {Absent, Text, Num(0), Num(1), Num(2), Num(3)}
LimitInputs == {Absent, Num(0), Num(2), Num(10)}
QueryInputs == {<<>>, <<"B">>, <<"q">>}

ListInit == \E n \in (0..MaxListDocs) \cup {25} : InitWith(n)

ListNext ==
  \/ \E v \in VideoIdInputs, p \in PageInputs, l \in LimitInputs :
       GetVideoComments(H1, v, p, l)
  \/ \E p \in PageInputs, l \in LimitInputs, q \in QueryInputs, sb \in SortFields,
        st \in {"asc", "desc"}, hu \in BOOLEAN, u \in UserIdInputs :
       /\ ~hu => u = 0
       /\ (q # <<>> /\ hu) => (q = <<"B">> /\ u = 1)
       /\ (q # <<>> \/ hu) => (sb = "createdAt" /\ st = "desc")
       /\ GetAllVideos(H1, p, l, q, sb, st, hu, u)

ListSpec == ListInit /\ [][ListNext]_vars

\* the last request was a listing with a page number and a page size of at
\* least 1 (given or defaulted) and well-formed ids
ListingAsked(op) ==
  /\ resp[H1].status # 0
  /\ resp[H1].req.op = op
  /\ ~ParseInt(resp[H1].req.page, DefaultPage).nan
  /\ ParseInt(resp[H1].req.page, DefaultPage).n >= 1
  /\ ~ParseInt(resp[H1].req.limit, DefaultLimit).nan
  /\ ParseInt(resp[H1].req.limit, DefaultLimit).n >= 1
  /\ IF op = "getAllVideos" THEN resp[H1].req.hasUserId => IsValidObjectId(resp[H1].req.id)
                            ELSE IsValidObjectId(resp[H1].req.id)

\* the documents the last listing request selects
Matching ==
  IF resp[H1].req.op = "getAllVideos"
    THEN MatchedVideos(videos, resp[H1].req.query, resp[H1].req.hasUserId, resp[H1].req.id)
    ELSE {c \in DOMAIN comments : comments[c].video = resp[H1].req.id}

\* ... and their place in the requested order
MatchingInOrder ==
  IF resp[H1].req.op = "getAllVideos"
    THEN SortIds(Matching, SortKey(videos, Matching, resp[H1].req.sortBy),
                 resp[H1].req.sortType = "asc")
    ELSE SortIds(Matching, [c \in Matching |-> comments[c].createdAt], FALSE)

\* the answered page is the documents (page-1)*size+1 .. page*size of the
\* order, as far as they exist, and totalPages is the least n with n*size >= total
IsPageOf(data, page, size) ==
  /\ Len(data.docs) = Min(size, IF Len(MatchingInOrder) > (page - 1) * size
                                  THEN Len(MatchingInOrder) - (page - 1) * size ELSE 0)
  /\ \A i \in 1..Len(data.docs) : data.docs[i] = MatchingInOrder[(page - 1) * size + i]
  /\ data.totalPages * size >= Len(MatchingInOrder)
  /\ (data.totalPages - 1) * size < Len(MatchingInOrder)

\* C6: for a page number and a page size of at least 1, getAllVideos and
\* getVideoComments answer 200 with the items (page-1)*size+1 .. page*size of
\* the matching documents in sort order and totalPages = ceil(total / size).
C6_PageSliceAndTotalPages ==
  \A op \in {"getAllVideos", "getVideoComments"} :
    ListingAsked(op)
      => /\ resp[H1].status = 200
         /\ IsPageOf(resp[H1].data,
                     ParseInt(resp[H1].req.page, DefaultPage).n,
                     ParseInt(resp[H1].req.limit, DefaultLimit).n)

\* C7: a getAllVideos whose filters match no video is answered with 200 and
\* an empty list of videos.
C7_EmptyListingIs200 ==
  (ListingAsked("getAllVideos") /\ Matching = {})
    => resp[H1].status = 200 /\ resp[H1].data.docs = <<>>

----------------------------------------------------------------------------
(* publishAVideo. The upload middleware has stored the files of the request *)
(* under VideoPath and ThumbnailPath before the handler runs.               *)

NoDuration == 0    \* the request body has no duration field

\* publishAVideo, lines 109-154: what it answers and leaves behind. hasVideo
\* and hasThumb say which files came with the request, videoOk and thumbOk
\* whether the gateway accepts each upload; oid is the _id of a new document.
PublishAVideoEffect(vs, m, tf, nid, oid, user, title, description, duration, hasVideo, hasThumb, videoOk, thumbOk) ==
  LET same == [videos |-> vs, media |-> m, tempFiles |-> tf, nextPublicId |-> nid,
               nextObjectId |-> oid, calls |-> <<>>]
      up1 == UploadOnCloudinary(VideoPath, "video", videoOk, m, tf, nid)
      up2 == UploadOnCloudinary(ThumbnailPath, "image", thumbOk, up1.media,
                                up1.tempFiles, up1.nextPublicId)
      after1 == [videos |-> vs, media |-> up1.media, tempFiles |-> up1.tempFiles,
                 nextPublicId |-> up1.nextPublicId, nextObjectId |-> oid,
                 calls |-> up1.calls]
      after2 == [videos |-> vs, media |-> up2.media, tempFiles |-> up2.tempFiles,
                 nextPublicId |-> up2.nextPublicId, nextObjectId |-> oid,
                 calls |-> up1.calls \o up2.calls]
  IN
  IF title = <<>> \/ description = <<>> \/ duration = NoDuration
  THEN same @@ [status |-> 400, data |-> "Title, description, and duration are required"]
  ELSE IF ~hasVideo
  THEN same @@ [status |-> 400, data |-> "Video file is required"]
  ELSE IF ~hasThumb
  THEN same @@ [status |-> 400, data |-> "Thumbnail file is required"]
  ELSE IF up1.thrown
  THEN after1 @@ [status |-> 500, data |-> "unlink failed"]
  ELSE IF up2.thrown
  THEN after2 @@ [status |-> 500, data |-> "unlink failed"]
  ELSE IF ~up1.result.ok \/ ~up2.result.ok
  THEN after2 @@ [status |-> 500, data |-> "Error uploading files to Cloudinary"]
  ELSE IF ~VideoSchemaValid(title, description)
  THEN [after2 EXCEPT !.calls = @ \o <<Call("Video.create", oid, "ValidationError")>>]
         @@ [status |-> ValidationErrorStatus, data |-> "ValidationError"]
  ELSE [videos |-> (oid :> NewVideo(title, description, duration, user,
                                    up1.result, up2.result, oid)) @@ vs,
        media |-> up2.media, tempFiles |-> up2.tempFiles,
        nextPublicId |-> up2.nextPublicId, nextObjectId |-> oid + 1,
        calls |-> up1.calls \o up2.calls \o <<Call("Video.create", oid, "ok")>>,
        status |-> 201, data |-> oid]

PublishAVideo(h, user, title, description, duration, hasVideo, hasThumb, videoOk, thumbOk) ==
  LET req == [op |-> "publishAVideo", user |-> user, id |-> 0, title |-> title,
              description |-> description, duration |-> duration,
              hasVideo |-> hasVideo, hasThumb |-> hasThumb]
      stored == tempFiles \cup (IF hasVideo THEN {VideoPath} ELSE {})
                          \cup (IF hasThumb THEN {ThumbnailPath} ELSE {})
      eff == PublishAVideoEffect(videos, media, stored, nextPublicId, nextObjectId, user,
                                 title, description, duration, hasVideo, hasThumb,
                                 videoOk, thumbOk)
  IN
  /\ nextPublicId <= MaxAssets
  /\ nextObjectId <= MaxDocs
  /\ videos' = eff.videos
  /\ media' = eff.media
  /\ tempFiles' = eff.tempFiles
  /\ nextPublicId' = eff.nextPublicId
  /\ nextObjectId' = eff.nextObjectId
  /\ Finish(h, Answer(req, eff.status, eff.data), eff.calls)
  /\ UNCHANGED <<comments, tweets, playlists, likeDocs, subscriptions>>

PublishTitles == {<<>>, Chars(2, "t"), Chars(3, "t")}
PublishDescriptions == {<<>>, Chars(9, "d"), Chars(10, "d")}
DurationInputs == {NoDuration, 7}

PublishNext ==
  \/ \E u \in Users, t \in PublishTitles, d \in PublishDescriptions, n \in DurationInputs,
        hv \in BOOLEAN, ht \in BOOLEAN, vo \in BOOLEAN, to \in BOOLEAN :
       /\ (t = <<>> \/ d = <<>> \/ n = NoDuration \/ ~hv \/ ~ht) => (vo /\ to)
       /\ PublishAVideo(H1, u, t, d, n, hv, ht, vo, to)
  \/ \E ok \in BOOLEAN : UpdateVideo(H1, 1, 1, <<>>, <<>>, TRUE, ok)

PublishSpec == Init /\ [][PublishNext]_vars

\* the entries of the last request's trace that are returns of the adapter
AdapterReturns == {i \in 1..Len(trace[H1]) : trace[H1][i].call = "uploadOnCloudinary"}

\* r answers a publishAVideo that came with title t, a description of
\* DescriptionMinLength characters, a duration and both files, and t is the
\* trace of two uploads the gateway accepted
PublishedWith(r, t, titleLength) ==
  /\ r.status # 0
  /\ r.req.op = "publishAVideo"
  /\ Len(r.req.title) = titleLength
  /\ Len(r.req.description) = DescriptionMinLength
  /\ r.req.duration # NoDuration
  /\ r.req.hasVideo /\ r.req.hasThumb
  /\ Len(t) >= 4
  /\ t[2].result = "response" /\ t[4].result = "response"

----------------------------------------------------------------------------
(* Playlist membership: addVideoToPlaylist and removeVideoFromPlaylist. No  *)
(* handler looks the video up, so any well-formed id can be a member. The   *)
(* video id arrives as text in the route; isValidObjectId and the cast to   *)
(* an ObjectId read hex digits in either case, ObjectId.toString prints     *)
(* them in lower case. A request names the id and says whether its text is  *)
(* spelled the way toString prints it.                                      *)

\* playlist.videos.includes(videoId): MongooseArray.indexOf compares the
\* given text with each element by ==, that is with the element's toString()
IncludesText(arr, id, lower) == lower /\ id \in Range(arr)

\* playlist.videos.filter((id) => id.toString() !== videoId.toString())
FilterText(arr, id, lower) == IF lower THEN SelectSeqBy(arr, id) ELSE arr

\* addVideoToPlaylist, lines 73-97; push casts the text to its ObjectId
AddVideoToPlaylistEffect(ps, playlistId, videoId, lower) ==
  IF ~IsValidObjectId(playlistId) \/ ~IsValidObjectId(videoId)
  THEN [playlists |-> ps, status |-> 400, data |-> "Invalid playlist or video ID",
        calls |-> <<>>]
  ELSE IF playlistId \notin DOMAIN ps
  THEN [playlists |-> ps, status |-> 404, data |-> "Playlist not found",
        calls |-> <<Call("Playlist.findById", playlistId, "null")>>]
  ELSE IF IncludesText(ps[playlistId].videos, videoId, lower)
  THEN [playlists |-> ps, status |-> 400, data |-> "Video already exists in the playlist",
        calls |-> <<Call("Playlist.findById", playlistId, "found")>>]
  ELSE [playlists |-> [ps EXCEPT ![playlistId].videos = Append(@, videoId)],
        status |-> 200, data |-> "Video added to playlist successfully",
        calls |-> <<Call("Playlist.findById", playlistId, "found"),
                    Call("playlist.save", playlistId, "ok")>>]

AddVideoToPlaylist(h, user, playlistId, videoId, lower) ==
  LET req == [op |-> "addVideoToPlaylist", user |-> user, id |-> playlistId,
              videoId |-> videoId, lower |-> lower]
      eff == AddVideoToPlaylistEffect(playlists, playlistId, videoId, lower)
  IN
  /\ playlistId \in DOMAIN playlists => Len(playlists[playlistId].videos) < MaxMembers
  /\ playlists' = eff.playlists
  /\ Finish(h, Answer(req, eff.status, eff.data), eff.calls)
  /\ UNCHANGED <<videos, comments, tweets, likeDocs, subscriptions, gateway, nextObjectId>>

\* removeVideoFromPlaylist, lines 100-123: the filtered list is saved whether
\* or not the id was in it
RemoveVideoFromPlaylistEffect(ps, playlistId, videoId, lower) ==
  IF ~IsValidObjectId(playlistId) \/ ~IsValidObjectId(videoId)
  THEN [playlists |-> ps, status |-> 400, data |-> "Invalid playlist or video ID",
        calls |-> <<>>]
  ELSE IF playlistId \notin DOMAIN ps
  THEN [playlists |-> ps, status |-> 404, data |-> "Playlist not found",
        calls |-> <<Call("Playlist.findById", playlistId, "null")>>]
  ELSE [playlists |-> [ps EXCEPT ![playlistId].videos = FilterText(@, videoId, lower)],
        status |-> 200, data |-> "Video removed from playlist successfully",
        calls |-> <<Call("Playlist.findById", playlistId, "found"),
                    Call("playlist.save", playlistId, "ok")>>]

RemoveVideoFromPlaylist(h, user, playlistId, videoId, lower) ==
  LET req == [op |-> "removeVideoFromPlaylist", user |-> user, id |-> playlistId,
              videoId |-> videoId, lower |-> lower]
      eff == RemoveVideoFromPlaylistEffect(playlists, playlistId, videoId, lower)
  IN
  /\ playlists' = eff.playlists
  /\ Finish(h, Answer(req, eff.status, eff.data), eff.calls)
  /\ UNCHANGED <<videos, comments, tweets, likeDocs, subscriptions, gateway, nextObjectId>>

MemberIdInputs == {0, 1, 2}

\* updatePlaylist, lines 145-166: findByIdAndUpdate with the body's name and
\* description; req.user is not read
UpdatePlaylist(h, user, playlistId, name, description) ==
  LET req == [op |-> "updatePlaylist", user |-> user, id |-> playlistId] IN
  /\ IF ~IsValidObjectId(playlistId)
     THEN /\ Finish(h, Answer(req, 400, "Invalid playlist ID"), <<>>)
          /\ UNCHANGED playlists
     ELSE IF playlistId \notin DOMAIN playlists
     THEN /\ Finish(h, Answer(req, 404, "Playlist not found"),
                    <<Call("Playlist.findByIdAndUpdate", playlistId, "null")>>)
          /\ UNCHANGED playlists
     ELSE /\ playlists' = [playlists EXCEPT ![playlistId].name = name,
                                            ![playlistId].description = description]
          /\ Finish(h, Answer(req, 200, "Playlist updated successfully"),
                    <<Call("Playlist.findByIdAndUpdate", playlistId, "found")>>)
  /\ UNCHANGED <<videos, comments, tweets, likeDocs, subscriptions, gateway, nextObjectId>>

\* deletePlaylist, lines 126-142: findByIdAndDelete; req.user is not read
DeletePlaylist(h, user, playlistId) ==
  LET req == [op |-> "deletePlaylist", user |-> user, id |-> playlistId] IN
  /\ IF ~IsValidObjectId(playlistId)
     THEN /\ Finish(h, Answer(req, 400, "Invalid playlist ID"), <<>>)
          /\ UNCHANGED playlists
     ELSE IF playlistId \notin DOMAIN playlists
     THEN /\ Finish(h, Answer(req, 404, "Playlist not found"),
                    <<Call("Playlist.findByIdAndDelete", playlistId, "null")>>)
          /\ UNCHANGED playlists
     ELSE /\ playlists' = Remove(playlists, playlistId)
          /\ Finish(h, Answer(req, 200, "Playlist deleted successfully"),
                    <<Call("Playlist.findByIdAndDelete", playlistId, "found")>>)
  /\ UNCHANGED <<videos, comments, tweets, likeDocs, subscriptions, gateway, nextObjectId>>

PlaylistNames == {<<"p">>, <<"q">>}

PlaylistNext ==
  \/ \E u \in Users, p \in DocIdInputs, v \in MemberIdInputs, lc \in BOOLEAN :
       AddVideoToPlaylist(H1, u, p, v, lc)
  \/ \E u \in Users, p \in DocIdInputs, v \in MemberIdInputs, lc \in BOOLEAN :
       RemoveVideoFromPlaylist(H1, u, p, v, lc)
  \/ \E u \in Users, p \in DocIdInputs, n \in PlaylistNames :
       UpdatePlaylist(H1, u, p, n, <<"d">>)
  \/ \E u \in Users, p \in DocIdInputs : DeletePlaylist(H1, u, p)

PlaylistSpec == Init /\ [][PlaylistNext]_vars

\* r answers an addVideoToPlaylist for a video that was in the list of the
\* stored playlists ps
DuplicateAdd(r, ps) ==
  /\ r.status # 0
  /\ r.req.op = "addVideoToPlaylist"
  /\ r.req.id \in DOMAIN ps
  /\ r.req.videoId \in Range(ps[r.req.id].videos)

\* C10: after any calls of addVideoToPlaylist and removeVideoFromPlaylist,
\* one after the other, every video id is at most once in a playlist's list;
\* an addVideoToPlaylist for a video already in the list is answered with 400
\* and leaves the list as it was.
C10_PlaylistHasNoDuplicates ==
  [][ /\ \A p \in DOMAIN playlists' : NoDup(playlists'[p].videos)
      /\ DuplicateAdd(resp'[H1], playlists)
           => resp'[H1].status = 400 /\ playlists' = playlists ]_vars

----------------------------------------------------------------------------
(* getChannelStats: the statistics of the requesting user's own channel *)

RECURSIVE SumViews(_, _)
\* { $group: { _id: null, totalViews: { $sum: "$views" } } } over documents S
SumViews(vs, S) ==
  IF S = {} THEN 0
  ELSE LET v == CHOOSE x \in S : TRUE IN vs[v].views + SumViews(vs, S \ {v})

\* statistics whose like count is not restricted to the channel's videos
StatsOfAllLikes(vs, subs, likes, channelId) ==
  LET owned == {v \in DOMAIN vs : vs[v].owner = channelId}
      grouped == IF owned = {} THEN <<>> ELSE <<[totalViews |-> SumViews(vs, owned)]>>
  IN  [totalVideos |-> Cardinality(owned),
       totalViews |-> IF Len(grouped) # 0 THEN grouped[1].totalViews ELSE 0,
       totalSubscribers |-> BagSum(subs, {k \in DOMAIN subs : k[2] = channelId}),
       totalLikes |-> BagSum(likes, {k \in DOMAIN likes : k[2] = "video"})]

\* lines 24-51: the four queries and the answer's data. $group yields no
\* document for an empty $match, one document otherwise.
ChannelStats(vs, subs, likes, channelId) ==
  LET owned == {v \in DOMAIN vs : vs[v].owner = channelId}
      grouped == IF owned = {} THEN <<>> ELSE <<[totalViews |-> SumViews(vs, owned)]>>
      distinctIds == owned
  IN  [totalVideos |-> Cardinality(owned),
       totalViews |-> IF Len(grouped) # 0 THEN grouped[1].totalViews ELSE 0,
       totalSubscribers |-> BagSum(subs, {k \in DOMAIN subs : k[2] = channelId}),
       totalLikes |-> BagSum(likes, {k \in DOMAIN likes :
                                       k[2] = "video" /\ k[3] \in distinctIds})]

GetChannelStats(h, user) ==
  LET req == [op |-> "getChannelStats", user |-> user, id |-> user] IN
  /\ IF ~IsValidObjectId(user)
     THEN Finish(h, Answer(req, 400, "Invalid channel ID"), <<>>)
     ELSE IF user \notin Users
     THEN Finish(h, Answer(req, 404, "Channel not found"),
                 <<Call("User.findById", user, "null")>>)
     ELSE Finish(h, Answer(req, 200, ChannelStats(videos, subscriptions, likeDocs, user)),
                 <<Call("User.findById", user, "found")>>)
  /\ UNCHANGED <<db, gateway, nextObjectId>>

\* Like documents a database may hold: of either user, for videos 1 and 2
\* (stored or deleted since) and for tweet 1
StatsLikeKeys ==
  {LikeKey(u, "video", v) : u \in Users, v \in {1, 2}} \cup {LikeKey(1, "tweet", 1)}

StatsInit ==
  \E n \in 0..MaxListDocs, S \in SUBSET StatsLikeKeys, twice \in BOOLEAN :
    /\ twice => LikeKey(1, "video", 1) \in S
    /\ Database(n, TRUE,
                [k \in S |-> IF twice /\ k = LikeKey(1, "video", 1) THEN 2 ELSE 1],
                EmptyBag)

StatsNext ==
  \/ \E u \in UserIdInputs : GetChannelStats(H1, u)
  \/ \E u \in Users, c \in Users : ToggleSubscription(H1, u, c)

StatsSpec == StatsInit /\ [][StatsNext]_vars

\* the last request was a getChannelStats of an existing channel
StatsAsked == resp[H1].status # 0 /\ resp[H1].req.op = "getChannelStats"
                /\ resp[H1].req.user \in Users

\* the documents of a collection that belong to channel c: keys pairs each
\* key with the channels it belongs to, docs gives its number or weight
RECURSIVE CountDocs(_, _, _)
CountDocs(docs, keys, c) ==
  IF keys = {} THEN 0
  ELSE LET k == CHOOSE x \in keys : TRUE
       IN  (IF c \in k[2] THEN docs[k[1]] ELSE 0) + CountDocs(docs, keys \ {k}, c)

\* C11: getChannelStats for channel c returns the number of Videos c owns,
\* the sum of their views (0 when c owns none), the number of Subscriptions
\* whose channel is c and the number of Like documents whose video c owns.
C11_ChannelStatsAreTotals ==
  StatsAsked =>
    LET c == resp[H1].req.user
        owned == {v \in DOMAIN videos : videos[v].owner = c}
    IN  /\ resp[H1].status = 200
        /\ resp[H1].data.totalVideos = Cardinality(owned)
        /\ resp[H1].data.totalViews
             = CountDocs([v \in DOMAIN videos |-> videos[v].views],
                         {<<v, {videos[v].owner}>> : v \in DOMAIN videos}, c)
        /\ owned = {} => resp[H1].data.totalViews = 0
        /\ resp[H1].data.totalSubscribers
             = CountDocs(subscriptions, {<<k, {k[2]}>> : k \in DOMAIN subscriptions}, c)
        /\ resp[H1].data.totalLikes
             = CountDocs(likeDocs,
                         {<<k, IF k[2] = "video" /\ k[3] \in DOMAIN videos
                               THEN {videos[k[3]].owner} ELSE {}>> : k \in DOMAIN likeDocs}, c)

\* the statistics of a channel that owns viewed videos, has a subscriber and
\* has likes, while another channel's video and a tweet are liked as well
C11_Witness ==
  /\ StatsAsked
  /\ resp[H1].data.totalVideos = 2
  /\ resp[H1].data.totalViews = 4
  /\ resp[H1].data.totalSubscribers = 1
  /\ resp[H1].data.totalLikes = 3
  /\ BagSum(likeDocs, DOMAIN likeDocs) > 3

----------------------------------------------------------------------------
(* The other toggles: toggleCommentLike and toggleTweetLike *)

NoUser == 0    \* req.user is not set

\* toggleCommentLike, lines 71-111: no format check of the id, so a malformed
\* one fails in the cast of Comment.findById (a CastError); the like is kept
\* in comment.likes only, no Like document is written
ToggleCommentLike(h, user, commentId) ==
  LET req == [op |-> "toggleCommentLike", user |-> user, id |-> commentId] IN
  /\ IF user = NoUser
     THEN /\ Finish(h, Answer(req, 401, "User not authenticated"), <<>>)
          /\ UNCHANGED comments
     ELSE IF ~IsValidObjectId(commentId)
     THEN /\ Finish(h, Answer(req, ValidationErrorStatus, "CastError"),
                    <<Call("Comment.findById", commentId, "CastError")>>)
          /\ UNCHANGED comments
     ELSE IF commentId \notin DOMAIN comments
     THEN /\ Finish(h, Answer(req, 404, "Comment not found"),
                    <<Call("Comment.findById", commentId, "null")>>)
          /\ UNCHANGED comments
     ELSE LET alreadyLiked == Includes(comments[commentId].likes, user)
              likes == IF alreadyLiked THEN SelectSeqBy(comments[commentId].likes, user)
                       ELSE Append(comments[commentId].likes, user)
          IN  /\ comments' = [comments EXCEPT ![commentId].likes = likes]
              /\ Finish(h, Answer(req, 200, [likes |-> Len(likes), added |-> ~alreadyLiked]),
                        << Call("Comment.findById", commentId, "found"),
                           Call("comment.save", commentId, "ok") >>)
  /\ UNCHANGED <<videos, tweets, playlists, likeDocs, subscriptions, gateway, nextObjectId>>

\* toggleTweetLike, lines 114-145. Document.prototype.remove exists up to
\* Mongoose 6 and is gone in 7; removeOk says which library the build has.
ToggleTweetLike(h, user, tweetId, removeOk) ==
  LET req == [op |-> "toggleTweetLike", user |-> user, id |-> tweetId]
      key == LikeKey(user, "tweet", tweetId)
  IN
  /\ IF ~IsValidObjectId(tweetId)
     THEN /\ Finish(h, Answer(req, 400, "Invalid tweet ID"), <<>>)
          /\ UNCHANGED likeDocs
     ELSE IF tweetId \notin DOMAIN tweets
     THEN /\ Finish(h, Answer(req, 404, "Tweet not found"),
                    <<Call("Tweet.findById", tweetId, "null")>>)
          /\ UNCHANGED likeDocs
     ELSE IF CopiesOf(likeDocs, key) > 0 /\ ~removeOk
     THEN /\ Finish(h, Answer(req, 500, "existingLike.remove is not a function"),
                    << Call("Tweet.findById", tweetId, "found"),
                       Call("Like.findOne", key, "found") >>)
          /\ UNCHANGED likeDocs
     ELSE IF CopiesOf(likeDocs, key) > 0
     THEN /\ likeDocs' = DeleteOneDoc(likeDocs, key)
          /\ Finish(h, Answer(req, 200, [added |-> FALSE]),
                    << Call("Tweet.findById", tweetId, "found"),
                       Call("Like.findOne", key, "found"),
                       Call("existingLike.remove", key, "ok") >>)
     ELSE /\ likeDocs' = InsertDoc(likeDocs, key)
          /\ Finish(h, Answer(req, 201, [added |-> TRUE]),
                    << Call("Tweet.findById", tweetId, "found"),
                       Call("Like.findOne", key, "null"),
                       Call("Like.create", key, "ok") >>)
  /\ UNCHANGED <<videos, comments, tweets, playlists, subscriptions, gateway, nextObjectId>>

H2 == "h2"

\* every toggle, one request at a time: the four one-step handlers answer
\* in slot h1, toggleVideoLike runs in slot h2
ToggleNext ==
  \/ \E u \in Users \cup {NoUser}, c \in DocIdInputs : ToggleCommentLike(H1, u, c)
  \/ \E u \in Users, t \in DocIdInputs, ok \in BOOLEAN :
       /\ CopiesOf(likeDocs, LikeKey(u, "tweet", t)) = 0 => ok
       /\ ToggleTweetLike(H1, u, t, ok)
  \/ \E u \in Users, c \in UserIdInputs :
       /\ c \in Users => c # u
       /\ ToggleSubscription(H1, u, c)
  \/ \E u \in Users, v \in DocIdInputs : TogglePublishStatus(H1, u, v)
  \/ \E v \in VideoIdInputs : ToggleVideoLikeStart(H2, 1, v)
  \/ ToggleVideoLikeFind(H2)
  \/ ToggleVideoLikeDelete(H2)
  \/ ToggleVideoLikeCreate(H2)
  \/ ToggleVideoLikeSave(H2)
  \/ ToggleVideoLikeCount(H2)

ToggleSpec == Init /\ [][ToggleNext]_vars

ToggleOps ==
  {"toggleVideoLike", "toggleCommentLike", "toggleTweetLike", "toggleSubscription",
   "togglePublishStatus"}

\* slot h holds the answer to a toggle that succeeded
ToggleSucceeded(h) ==
  /\ resp[h].status \in 200..299
  /\ resp[h].req.op \in ToggleOps

\* C12: every successful toggle (toggleVideoLike, toggleCommentLike,
\* toggleTweetLike, toggleSubscription, togglePublishStatus) is answered with
\* 200, when it adds the relation and when it removes it.
C12_TogglesAnswer200 ==
  \A h \in Handlers : ToggleSucceeded(h) => resp[h].status = 200

----------------------------------------------------------------------------
(* The remove operations of the gateway adapter, called on their own with   *)
(* any identifier a caller may hold, the absent one (0) included.           *)

\* one call of deleteFromCloudinary (image = FALSE) or of
\* deleteImageFromCloudinary (image = TRUE); the trace keeps the gateway call,
\* if any, and then what the adapter returned
RemoveMedia(h, image, publicId, gatewayOk) ==
  LET d == IF image THEN DeleteImageFromCloudinary(publicId, gatewayOk, media)
                    ELSE DeleteFromCloudinary(publicId, gatewayOk, media)
      name == IF image THEN "deleteImageFromCloudinary" ELSE "deleteFromCloudinary"
  IN
  /\ media' = d.media
  /\ Finish(h, NoResp, d.calls \o <<Call(name, publicId, d.result)>>)
  /\ UNCHANGED <<db, tempFiles, nextPublicId, nextObjectId>>

AssetIdInputs == 0..(2 * MaxDocs)

AdapterInit == \E n \in 1..MaxDocs : InitWith(n)

AdapterNext ==
  \E image \in BOOLEAN, a \in AssetIdInputs, ok \in BOOLEAN :
    RemoveMedia(H1, image, a, ok)

AdapterSpec == AdapterInit /\ [][AdapterNext]_vars

RemoveOps == {"deleteFromCloudinary", "deleteImageFromCloudinary"}

\* what either remove operation returns when the gateway call fails
FailedDeletionResult == DeleteFromCloudinary(1, FALSE, media).result

\* C13: deleteFromCloudinary / deleteImageFromCloudinary called with an absent
\* identifier makes no gateway call and returns a success outcome, one that a
\* caller can tell from the outcome of a failed deletion.
C13_AbsentIdIsNoOpSuccess ==
  \A i \in 1..Len(trace[H1]) :
    (trace[H1][i].call \in RemoveOps /\ trace[H1][i].arg = 0)
      => /\ \A j \in 1..Len(trace[H1]) : trace[H1][j].call # "cloudinary.destroy"
         /\ trace[H1][i].result # FailedDeletionResult

----------------------------------------------------------------------------
(* What deleteVideo leaves behind *)

\* the stored Video documents one of whose assets is no longer at the gateway
Dangling ==
  {v \in DOMAIN videos : videos[v].videoPublicId \notin DOMAIN media
                           \/ videos[v].thumbnailPublicId \notin DOMAIN media}

\* C15: however deleteVideo ends (success, or failure of either media
\* deletion), no stored Video document refers to a video or thumbnail asset
\* that has been deleted from the gateway.
C15_NoDanglingDocument ==
  (resp[H1].status # 0 /\ resp[H1].req.op = "deleteVideo") => Dangling = {}

----------------------------------------------------------------------------
(* Validation and the order of a handler's calls *)

\* r answers a publishAVideo whose body lacks a field or a file, or whose
\* title or description has a length outside the schema's bounds
InvalidPublish(r) ==
  /\ r.status # 0
  /\ r.req.op = "publishAVideo"
  /\ \/ r.req.title = <<>> \/ r.req.description = <<>> \/ r.req.duration = NoDuration
     \/ ~r.req.hasVideo \/ ~r.req.hasThumb
     \/ Len(r.req.title) < TitleMinLength \/ Len(r.req.title) > TitleMaxLength
     \/ Len(r.req.description) < DescriptionMinLength
     \/ Len(r.req.description) > DescriptionMaxLength

\* C14: a request with a malformed or missing identifier, a missing required
\* field, an out-of-range title or description length or blank content is
\* answered with 400 before the handler has made any storage or gateway call.
C14_InvalidRequestTouchesNothing ==
  InvalidPublish(resp[H1]) => resp[H1].status = 400 /\ trace[H1] = <<>>

----------------------------------------------------------------------------
(* Ownership of playlists *)

PlaylistWriteOps ==
  {"updatePlaylist", "deletePlaylist", "addVideoToPlaylist", "removeVideoFromPlaylist"}

\* r answers a playlist write of a user who does not own the playlist (as
\* stored in ps, before the request)
ByOtherUser(r, ps) ==
  /\ r.status # 0
  /\ r.req.op \in PlaylistWriteOps
  /\ r.req.id \in DOMAIN ps
  /\ r.req.user # ps[r.req.id].owner

\* C16: updatePlaylist, deletePlaylist, addVideoToPlaylist and
\* removeVideoFromPlaylist invoked by a user other than the playlist's owner
\* leave the playlist unchanged.
C16_OnlyOwnerChangesPlaylist ==
  [][ ByOtherUser(resp'[H1], playlists) => playlists' = playlists ]_vars

----------------------------------------------------------------------------
(* publishAVideo after a failed upload *)

\* the last request was a publishAVideo whose first gateway call, the upload
\* of the video file, failed
VideoUploadFailed ==
  /\ resp[H1].status # 0
  /\ resp[H1].req.op = "publishAVideo"
  /\ Len(trace[H1]) >= 2
  /\ trace[H1][1] = Call("cloudinary.upload", VideoPath, "error")

\* C17: in publishAVideo a failed video upload aborts the operation: no
\* further media-gateway call and no storage write follow it, and the request
\* is answered with 500.
C17_FailedUploadAborts ==
  VideoUploadFailed
    => /\ resp[H1].status = 500
       /\ \A i \in 3..Len(trace[H1]) :
            trace[H1][i].call \notin {"cloudinary.upload", "Video.create"}

----------------------------------------------------------------------------
(* Tweets, and how often a handler sends *)

\* createTweet, lines 8-32
CreateTweet(h, user, content) ==
  LET req == [op |-> "createTweet", user |-> user, id |-> 0] IN
  /\ nextObjectId <= MaxDocs
  /\ IF content = <<>> \/ Trim(content) = <<>>
     THEN /\ Finish(h, Answer(req, 400, "Tweet content cannot be empty"), <<>>)
          /\ UNCHANGED <<tweets, nextObjectId>>
     ELSE /\ tweets' = (nextObjectId :> [content |-> Trim(content), owner |-> user,
                                         replyTo |-> 0]) @@ tweets
          /\ nextObjectId' = nextObjectId + 1
          /\ Finish(h, Answer(req, 201, nextObjectId),
                    << Call("Tweet.create", nextObjectId, "ok"),
                       Call("tweet.populate", nextObjectId, "ok") >>)
  /\ UNCHANGED <<videos, comments, playlists, likeDocs, subscriptions, gateway>>

\* updateTweet, lines 57-59: an empty body; it returns and sends nothing
UpdateTweet(h, user, tweetId, content) ==
  /\ Finish(h, Unanswered([op |-> "updateTweet", user |-> user, id |-> tweetId]), <<>>)
  /\ UNCHANGED <<db, gateway, nextObjectId>>

TweetContents == {<<>>, <<" ">>, <<"n", " ">>}

ResponseNext ==
  \/ \E u \in Users, c \in TweetContents : CreateTweet(H1, u, c)
  \/ \E u \in Users, t \in DocIdInputs, c \in TweetContents : UpdateTweet(H1, u, t, c)
  \/ \E u \in Users, t \in DocIdInputs : DeleteTweet(H1, u, t)
  \/ \E p \in PageInputs, l \in LimitInputs, q \in QueryInputs :
       GetAllVideos(H1, p, l, q, "createdAt", "desc", FALSE, 0)

ResponseSpec == Init /\ [][ResponseNext]_vars

\* C18: every handler invocation sends exactly one response: on every path
\* it sends one (or raises an error that is reported), and never a second
\* one; so do getAllVideos with an empty result and updateTweet.
C18_ExactlyOneResponse ==
  \A h \in Handlers : "req" \in DOMAIN resp[h] => resp[h].sends = 1

----------------------------------------------------------------------------
(* A Video document and its media *)

\* the URL and the public id a document stores for one of its files name
\* the same asset of the gateway
SameAsset(url, publicId) == url = Url(publicId)

\* C19: in every reachable state each Video document's thumbnail URL and
\* thumbnailPublicId, and its videoFile URL and videoPublicId, identify the
\* same media-gateway asset; so after publishAVideo and after any updateVideo
\* calls that upload a new thumbnail.
C19_UrlAndPublicIdAgree ==
  \A v \in DOMAIN videos :
    /\ SameAsset(videos[v].videoFile, videos[v].videoPublicId)
    /\ SameAsset(videos[v].thumbnail, videos[v].thumbnailPublicId)

====
